---- MODULE Spec2Model ----
(***************************************************************************)
(* A model of the two fantasy-football scrapers:                           *)
(*   espn_league_scraper.py  (class ESPNLeagueScraper and its main)        *)
(*   nfl_fantasy_stats.py    (class NFLFantasyStatsScraper and its main)   *)
(* Every public method is one action.  The remote collaborators (the      *)
(* espn_api League object, the Sleeper HTTP endpoints) answer              *)
(* nondeterministically from small sets, failures included.                *)
(***************************************************************************)
EXTENDS Integers, Sequences, FiniteSets, TLC

\* -------------------------------------------------------------- bounds
\* The largest week number the remote league reports or is asked for.
MaxWeek == 2

\* The number of method calls a program makes on one scraper.
MaxCalls == 3

\* The number of times the same command is run over the same directory.
MaxRuns == 2

\* ------------------------------------------------------- Python values
\* A value is a tagged tuple, so that values of different Python types
\* can be told apart without comparing their payloads.
PyNone == <<"none">>
PyInt(n) == <<"int", n>>
PyStr(s) == <<"str", s>>
PyBool(b) == <<"bool", b>>
PyObj(o) == <<"obj", o>>

\* bool(v): None, 0, "" and False are falsy; objects are truthy.
Truthy(v) ==
  CASE v[1] = "none" -> FALSE
    [] v[1] = "int" -> v[2] # 0
    [] v[1] = "str" -> v[2] # ""
    [] v[1] = "bool" -> v[2]
    [] OTHER -> TRUE

Digit(n) == <<"0", "1", "2", "3", "4", "5", "6", "7", "8", "9">>[n + 1]

RECURSIVE NatToStr(_)
NatToStr(n) == IF n < 10 THEN Digit(n) ELSE NatToStr(n \div 10) \o Digit(n % 10)

\* str(v) as the csv module and the f-strings render a value.
PyToStr(v) ==
  CASE v[1] = "none" -> "None"
    [] v[1] = "int" -> IF v[2] < 0 THEN "-" \o NatToStr(0 - v[2]) ELSE NatToStr(v[2])
    [] v[1] = "bool" -> IF v[2] THEN "True" ELSE "False"
    [] OTHER -> v[2]

\* ------------------------------------------------------------- dicts
\* A dict is the sequence of its <<key, value>> items in insertion order.
Keys(d) == [i \in 1..Len(d) |-> d[i][1]]

KeySet(d) == {d[i][1] : i \in 1..Len(d)}

HasKey(d, k) == k \in KeySet(d)

\* d.get(k, default)
DictGet(d, k, default) ==
  IF HasKey(d, k) THEN d[CHOOSE i \in 1..Len(d) : d[i][1] = k][2] ELSE default

\* getattr(o, a) if hasattr(o, a) else default, o a record of attributes
AttrOr(o, a, default) == IF a \in DOMAIN o THEN o[a] ELSE default

RECURSIVE Concat(_)
Concat(ss) == IF ss = <<>> THEN <<>> ELSE Head(ss) \o Concat(Tail(ss))

\* ------------------------------------------------------------- files
NoFile == [kind |-> "absent", header |-> <<>>, rows |-> <<>>]

\* csv.writer renders None as the empty field and anything else by str().
CsvCell(v) == IF v[1] = "none" THEN "" ELSE PyToStr(v)

\* DictWriter._dict_to_list: the row's values in fieldnames order,
\* restval '' for a key the row lacks.
DictRow(fieldnames, d) ==
  [j \in 1..Len(fieldnames) |-> CsvCell(DictGet(d, fieldnames[j], PyStr("")))]

\* DictWriter raises ValueError on a row holding a key not in fieldnames.
RowFits(fieldnames, d) == KeySet(d) \subseteq {fieldnames[j] : j \in 1..Len(fieldnames)}

\* A writer that puts the rows out last record first.
CsvFile_RowsReversed(data) ==
  LET fieldnames == Keys(data[1])
  IN [kind |-> "csv", header |-> fieldnames,
      rows |-> [i \in 1..Len(data) |-> DictRow(fieldnames, data[Len(data) + 1 - i])]]

\* open(filename, 'w'); fieldnames = data[0].keys(); writeheader();
\* writerows(data), for non-empty data.  The rows before the first
\* misfit row are written before ValueError leaves the with block.
RECURSIVE FitPrefix(_, _)
FitPrefix(fieldnames, data) ==
  IF data = <<>> \/ ~RowFits(fieldnames, Head(data)) THEN <<>>
  ELSE <<Head(data)>> \o FitPrefix(fieldnames, Tail(data))

CsvFile(data) ==
  LET fieldnames == Keys(data[1])
      good == FitPrefix(fieldnames, data)
  IN [kind |-> "csv", header |-> fieldnames,
      rows |-> [i \in 1..Len(good) |-> DictRow(fieldnames, good[i])]]

CsvRaises(data) == \E i \in 1..Len(data) : ~RowFits(Keys(data[1]), data[i])

\* json.dump(obj, f, indent=2) of a flat mapping: its items in order.
JsonFile(d) ==
  [kind |-> "json", header |-> Keys(d),
   rows |-> <<[j \in 1..Len(d) |-> IF d[j][2][1] = "none" THEN "null" ELSE PyToStr(d[j][2])]>>]

\* ------------------------------------------- collaborator A: espn_api
\* Player objects of a roster; the second lacks the optional attributes.
PlayerA ==
  [name |-> PyStr("Pat"), position |-> PyStr("QB"), proTeam |-> PyStr("KC"),
   injured |-> PyBool(FALSE), injuryStatus |-> PyStr("ACTIVE"),
   total_points |-> PyInt(30), projected_total_points |-> PyInt(28),
   avg_points |-> PyInt(15)]

PlayerB ==
  [name |-> PyStr("Rob"), position |-> PyStr("RB"), proTeam |-> PyStr("SF"),
   injured |-> PyBool(TRUE)]

\* Team objects; the second has no playoff_pct attribute.
TeamA ==
  [team_id |-> PyInt(1), team_name |-> PyStr("Alpha"), owner |-> PyStr("ann"),
   wins |-> PyInt(1), losses |-> PyInt(0), ties |-> PyInt(0),
   points_for |-> PyInt(101), points_against |-> PyInt(99),
   standing |-> PyInt(1), playoff_pct |-> PyInt(75), roster |-> <<PlayerA>>]

TeamB ==
  [team_id |-> PyInt(2), team_name |-> PyStr("Beta"), owner |-> PyStr("bob"),
   wins |-> PyInt(0), losses |-> PyInt(1), ties |-> PyInt(0),
   points_for |-> PyInt(99), points_against |-> PyInt(101),
   standing |-> PyInt(2), roster |-> <<PlayerB>>]

SettingsA ==
  [name |-> PyStr("Office"), reg_season_count |-> PyInt(14),
   playoff_team_count |-> PyInt(4), team_count |-> PyInt(2),
   playoff_seed_tie_rule |-> PyStr("H2H")]

\* The League objects the remote can hand back: a league with two teams
\* at any current week, or one with no team yet in its first week.
Leagues ==
  {[settings |-> SettingsA, teams |-> <<TeamA, TeamB>>, current_week |-> w] : w \in 1..MaxWeek}
  \cup {[settings |-> SettingsA, teams |-> <<>>, current_week |-> 1]}

\* Box scores: a played pairing, and the two shapes of a bye (the
\* missing side is a falsy value: None, or the 0 espn_api stores).
Played(a, b) ==
  [home_team |-> PyObj(a), home_score |-> PyInt(101),
   away_team |-> PyObj(b), away_score |-> PyInt(99)]

HomeBye(b) ==
  [home_team |-> PyNone, home_score |-> PyInt(0),
   away_team |-> PyObj(b), away_score |-> PyInt(88)]

AwayBye(a) ==
  [home_team |-> PyObj(a), home_score |-> PyInt(77),
   away_team |-> PyInt(0), away_score |-> PyInt(0)]

\* What league.box_scores(week) can do: raise, or return a list.
BoxAnswers(lg) ==
  {[raises |-> TRUE, scores |-> <<>>], [raises |-> FALSE, scores |-> <<>>]}
  \cup (IF lg.teams = <<>> THEN {}
        ELSE {[raises |-> FALSE, scores |-> <<Played(lg.teams[1], lg.teams[2])>>],
              [raises |-> FALSE,
               scores |-> <<HomeBye(lg.teams[2]), AwayBye(lg.teams[1])>>]})

\* ------------------------------------------------ ESPNLeagueScraper
VARIABLES
  espn_s2,       \* self.espn_s2
  swid,          \* self.swid
  league,        \* self.league: None or the League object
  kwargs,        \* the keyword arguments of the latest League(...) call
  connected,     \* what the latest connect_to_league returned (None: never called)
  fs,            \* the files on disk: file name -> content
  op,            \* the latest call: its name and arguments
  ret,           \* what the latest call returned
  raised,        \* whether the latest call raised to its caller
  out,           \* what the latest call printed
  queries,       \* the latest call's box_scores queries: week and answer
  data,          \* the records the latest export call had to write
  week_arg,      \* main's args.week
  players,       \* NFLFantasyStatsScraper: self.players
  fantasy_stats, \* self.fantasy_stats
  player_data_cache, \* self.player_data_cache
  fetched,       \* what the latest bulk-directory fetch returned
  generated,     \* whether generate_sample_data has been invoked
  pc,            \* main's position
  calls,         \* the number of method calls made so far
  run,           \* the number of the run of main under way
  written        \* the files opened for writing in this run of main

vars == <<espn_s2, swid, league, kwargs, connected, fs, op, ret, raised, out, queries, data,
          week_arg, players, fantasy_stats, player_data_cache, fetched, generated,
          pc, calls, run, written>>

\* The state of the scraper the program does not use.
statsVars == <<players, fantasy_stats, player_data_cache, fetched, generated>>
espnVars == <<espn_s2, swid, league, kwargs, connected, queries, week_arg>>
runVars == <<run, written>>

PyList(s) == <<"list", s>>
PyDict(d) == <<"dict", d>>

\* self.league_id (the command line's default) and self.year (this year)
league_id == 428501878
year == 2026

WeekFile(week) == "espn_matchups_week" \o PyToStr(week) \o ".csv"

LeagueFiles ==
  {"espn_teams.csv", "espn_rosters.csv", "espn_all_matchups.csv", "espn_league_info.json"}
  \cup {WeekFile(PyInt(w)) : w \in 1..MaxWeek}

\* A team_info without the playoff_pct column.
TeamInfo_NoPlayoffPct(team) ==
  << <<"team_id", team.team_id>>, <<"team_name", team.team_name>>,
     <<"owner", team.owner>>, <<"wins", team.wins>>, <<"losses", team.losses>>,
     <<"ties", team.ties>>, <<"points_for", team.points_for>>,
     <<"points_against", team.points_against>>, <<"standing", team.standing>> >>

\* get_teams_data's team_info
TeamInfo(team) ==
  << <<"team_id", team.team_id>>, <<"team_name", team.team_name>>,
     <<"owner", team.owner>>, <<"wins", team.wins>>, <<"losses", team.losses>>,
     <<"ties", team.ties>>, <<"points_for", team.points_for>>,
     <<"points_against", team.points_against>>, <<"standing", team.standing>>,
     <<"playoff_pct", AttrOr(team, "playoff_pct", PyInt(0))>> >>

get_teams_data(lg) ==
  IF ~Truthy(lg) THEN <<>>
  ELSE [i \in 1..Len(lg[2].teams) |-> TeamInfo(lg[2].teams[i])]

\* get_rosters_data's player_info
PlayerInfo(team, player) ==
  << <<"team_id", team.team_id>>, <<"team_name", team.team_name>>,
     <<"player_name", player.name>>, <<"position", player.position>>,
     <<"pro_team", player.proTeam>>, <<"injured", player.injured>>,
     <<"injury_status", AttrOr(player, "injuryStatus", PyStr(""))>>,
     <<"total_points", AttrOr(player, "total_points", PyInt(0))>>,
     <<"projected_total_points", AttrOr(player, "projected_total_points", PyInt(0))>>,
     <<"avg_points", AttrOr(player, "avg_points", PyInt(0))>> >>

get_rosters_data(lg) ==
  IF ~Truthy(lg) THEN <<>>
  ELSE Concat([i \in 1..Len(lg[2].teams) |->
                 [j \in 1..Len(lg[2].teams[i].roster) |->
                    PlayerInfo(lg[2].teams[i], lg[2].teams[i].roster[j])]])

\* A matchup_info whose away side is decided by the home side's test.
MatchupInfo_AwayByHomeTest(week, matchup) ==
  << <<"week", PyInt(week)>>,
     <<"home_team", IF Truthy(matchup.home_team)
                    THEN matchup.home_team[2].team_name ELSE PyStr("BYE")>>,
     <<"home_team_id", IF Truthy(matchup.home_team)
                       THEN matchup.home_team[2].team_id ELSE PyNone>>,
     <<"home_score", matchup.home_score>>,
     <<"away_team", IF Truthy(matchup.home_team) /\ Truthy(matchup.away_team)
                    THEN matchup.away_team[2].team_name ELSE PyStr("BYE")>>,
     <<"away_team_id", IF Truthy(matchup.home_team) /\ Truthy(matchup.away_team)
                       THEN matchup.away_team[2].team_id ELSE PyNone>>,
     <<"away_score", matchup.away_score>> >>

\* get_matchups_data's matchup_info
MatchupInfo(week, matchup) ==
  << <<"week", PyInt(week)>>,
     <<"home_team", IF Truthy(matchup.home_team)
                    THEN matchup.home_team[2].team_name ELSE PyStr("BYE")>>,
     <<"home_team_id", IF Truthy(matchup.home_team)
                       THEN matchup.home_team[2].team_id ELSE PyNone>>,
     <<"home_score", matchup.home_score>>,
     <<"away_team", IF Truthy(matchup.away_team)
                    THEN matchup.away_team[2].team_name ELSE PyStr("BYE")>>,
     <<"away_team_id", IF Truthy(matchup.away_team)
                       THEN matchup.away_team[2].team_id ELSE PyNone>>,
     <<"away_score", matchup.away_score>> >>

\* get_matchups_data(week), given what box_scores answers: the list it
\* returns, whether it raises, and the query it made (none when the
\* scraper holds no league).  week is None or a week number.
get_matchups_data(lg, week, answer) ==
  IF ~Truthy(lg) THEN [raises |-> FALSE, list |-> <<>>, asked |-> <<>>]
  ELSE LET w == IF week = PyNone THEN lg[2].current_week ELSE week[2]
           query == [week |-> w, answer |-> answer]
       IN IF answer.raises
          THEN [raises |-> TRUE, list |-> <<>>, asked |-> <<query>>]
          ELSE [raises |-> FALSE,
                list |-> [i \in 1..Len(answer.scores) |-> MatchupInfo(w, answer.scores[i])],
                asked |-> <<query>>]

\* get_league_settings
get_league_settings(lg) ==
  IF ~Truthy(lg) THEN <<>>
  ELSE LET settings == lg[2].settings
       IN << <<"name", settings.name>>, <<"season", PyInt(year)>>,
             <<"reg_season_count", settings.reg_season_count>>,
             <<"playoff_team_count", settings.playoff_team_count>>,
             <<"team_count", settings.team_count>>,
             <<"playoff_seed_tie_rule", AttrOr(settings, "playoff_seed_tie_rule", PyStr(""))>>,
             <<"roster_size", AttrOr(settings, "roster_size", PyInt(0))>> >>

\* ----------------------------------------------- the export routine
\* An export that opens the file before it looks at the list.
Export_OpensFirst(files, records, filename, emptyMsg, savedMsg) ==
  IF records = <<>>
  THEN [fs |-> [files EXCEPT ![filename] = [kind |-> "csv", header |-> <<>>, rows |-> <<>>]],
        out |-> <<emptyMsg>>, raises |-> FALSE]
  ELSE [fs |-> [files EXCEPT ![filename] = CsvFile(records)],
        out |-> <<savedMsg>>, raises |-> FALSE]

\* The body every save_*_to_csv shares: nothing is opened for an empty
\* list; otherwise the file is opened for writing (created or truncated)
\* and the header and the rows are written.
Export(files, records, filename, emptyMsg, savedMsg) ==
  IF records = <<>>
  THEN [fs |-> files, out |-> <<emptyMsg>>, raises |-> FALSE]
  ELSE [fs |-> [files EXCEPT ![filename] = CsvFile(records)],
        out |-> IF CsvRaises(records) THEN <<>> ELSE <<savedMsg>>,
        raises |-> CsvRaises(records)]

\* -------------------------------------------- the methods, as effects
\* What League(...) can do: raise, or return a League object.
LeagueAnswers ==
  {[raises |-> TRUE, league |-> PyNone]}
  \cup {[raises |-> FALSE, league |-> PyObj(l)] : l \in Leagues}

\* A connector that passes the credentials as soon as it holds one.
ConnectKwargs_EitherCredential(s2, sw) ==
  IF Truthy(s2) \/ Truthy(sw)
  THEN << <<"league_id", PyInt(league_id)>>, <<"year", PyInt(year)>>,
          <<"espn_s2", s2>>, <<"swid", sw>> >>
  ELSE << <<"league_id", PyInt(league_id)>>, <<"year", PyInt(year)>> >>

\* The keyword arguments connect_to_league passes to League(...).
ConnectKwargs(s2, sw) ==
  IF Truthy(s2) /\ Truthy(sw)
  THEN << <<"league_id", PyInt(league_id)>>, <<"year", PyInt(year)>>,
          <<"espn_s2", s2>>, <<"swid", sw>> >>
  ELSE << <<"league_id", PyInt(league_id)>>, <<"year", PyInt(year)>> >>

ConnectingMsg ==
  "Connecting to ESPN league " \o NatToStr(league_id) \o " for year "
    \o NatToStr(year) \o "..."

\* A connect_to_league without its try: what League(...) raises goes on
\* to the caller.
DoConnect_NoTry(answer) ==
  /\ kwargs' = ConnectKwargs(espn_s2, swid)
  /\ league' = IF answer.raises THEN league ELSE answer.league
  /\ ret' = IF answer.raises THEN PyNone ELSE PyBool(TRUE)
  /\ connected' = PyBool(~answer.raises)
  /\ raised' = answer.raises
  /\ out' = <<ConnectingMsg>>
  /\ op' = <<"connect_to_league">>
  /\ queries' = <<>>
  /\ data' = <<>>
  /\ UNCHANGED <<espn_s2, swid, fs>>

\* connect_to_league: self.league is assigned only when League(...)
\* returns; the except clause leaves it as it was.
DoConnect(answer) ==
  /\ kwargs' = ConnectKwargs(espn_s2, swid)
  /\ league' = IF answer.raises THEN league ELSE answer.league
  /\ ret' = PyBool(~answer.raises)
  /\ connected' = PyBool(~answer.raises)
  /\ raised' = FALSE
  /\ out' = IF answer.raises
            THEN <<ConnectingMsg, "Error connecting to league">>
            ELSE <<ConnectingMsg,
                   IF Truthy(espn_s2) /\ Truthy(swid)
                   THEN "Connected to private league with authentication"
                   ELSE "Connected to public league",
                   "League: " \o PyToStr(answer.league[2].settings.name),
                   "Teams: " \o NatToStr(Len(answer.league[2].teams))>>
  /\ op' = <<"connect_to_league">>
  /\ queries' = <<>>
  /\ data' = <<>>
  /\ UNCHANGED <<espn_s2, swid, fs>>

\* A getter that asks the remote for nothing.
DoGet(name, value) ==
  /\ op' = <<name>>
  /\ ret' = value
  /\ raised' = FALSE
  /\ out' = <<>>
  /\ queries' = <<>>
  /\ data' = <<>>
  /\ UNCHANGED <<espn_s2, swid, league, kwargs, connected, fs>>

DoGetTeams == DoGet("get_teams_data", PyList(get_teams_data(league)))

DoGetRosters == DoGet("get_rosters_data", PyList(get_rosters_data(league)))

DoGetSettings == DoGet("get_league_settings", PyDict(get_league_settings(league)))

\* The answers box_scores may give to the scraper as it is now.
Answers == IF Truthy(league) THEN BoxAnswers(league[2]) ELSE {[raises |-> FALSE, scores |-> <<>>]}

DoGetMatchups(week, answer) ==
  LET r == get_matchups_data(league, week, answer)
  IN /\ op' = <<"get_matchups_data", week>>
     /\ ret' = IF r.raises THEN PyNone ELSE PyList(r.list)
     /\ raised' = r.raises
     /\ out' = <<>>
     /\ queries' = r.asked
     /\ data' = <<>>
     /\ UNCHANGED <<espn_s2, swid, league, kwargs, connected, fs>>

\* A save_*_to_csv whose records come from a getter that cannot raise.
DoSave(name, records, filename, emptyMsg, savedMsg) ==
  LET e == Export(fs, records, filename, emptyMsg, savedMsg)
  IN /\ op' = <<name>>
     /\ ret' = PyNone
     /\ raised' = e.raises
     /\ out' = e.out
     /\ fs' = e.fs
     /\ queries' = <<>>
     /\ data' = records
     /\ UNCHANGED <<espn_s2, swid, league, kwargs, connected>>

DoSaveTeams ==
  LET teams_data == get_teams_data(league)
  IN DoSave("save_teams_to_csv", teams_data, "espn_teams.csv", "No team data to save!",
            "Saved " \o NatToStr(Len(teams_data)) \o " teams to espn_teams.csv")

DoSaveRosters ==
  LET rosters_data == get_rosters_data(league)
  IN DoSave("save_rosters_to_csv", rosters_data, "espn_rosters.csv",
            "No roster data to save!",
            "Saved " \o NatToStr(Len(rosters_data)) \o " roster entries to espn_rosters.csv")

\* save_matchups_to_csv(week): the week defaults to the current week, or
\* to 1 without a league; the file is named after the week.
DoSaveMatchups(week, answer) ==
  LET w == IF week = PyNone
           THEN (IF Truthy(league) THEN PyInt(league[2].current_week) ELSE PyInt(1))
           ELSE week
      filename == WeekFile(w)
      r == get_matchups_data(league, w, answer)
      e == Export(fs, r.list, filename, "No matchup data to save!",
                  "Saved " \o NatToStr(Len(r.list)) \o " matchups to " \o filename)
  IN /\ op' = <<"save_matchups_to_csv", week>>
     /\ ret' = PyNone
     /\ raised' = (r.raises \/ e.raises)
     /\ out' = IF r.raises THEN <<>> ELSE e.out
     /\ fs' = IF r.raises THEN fs ELSE e.fs
     /\ queries' = r.asked
     /\ data' = r.list
     /\ UNCHANGED <<espn_s2, swid, league, kwargs, connected>>

\* save_all_matchups_to_csv's loop, from `week` on: the matchups of the
\* weeks up to current_week in turn, until box_scores raises.
RECURSIVE CollectWeeks(_, _, _, _)

\* A loop over range(1, current_week): the current week is left out.
CollectWeeks_StopsEarly(lg, answers, week, current_week) ==
  IF week >= current_week
  THEN [raises |-> FALSE, list |-> <<>>, asked |-> <<>>]
  ELSE LET r == get_matchups_data(lg, PyInt(week), answers[week])
           rest == CollectWeeks(lg, answers, week + 1, current_week)
       IN IF r.raises THEN r
          ELSE [raises |-> rest.raises, list |-> r.list \o rest.list,
                asked |-> r.asked \o rest.asked]

CollectWeeks(lg, answers, week, current_week) ==
  IF week > current_week
  THEN [raises |-> FALSE, list |-> <<>>, asked |-> <<>>]
  ELSE LET r == get_matchups_data(lg, PyInt(week), answers[week])
           rest == CollectWeeks(lg, answers, week + 1, current_week)
       IN IF r.raises THEN r
          ELSE [raises |-> rest.raises, list |-> r.list \o rest.list,
                asked |-> r.asked \o rest.asked]

DoSaveAllMatchups(answers) ==
  IF ~Truthy(league)
  THEN /\ op' = <<"save_all_matchups_to_csv">>
       /\ ret' = PyNone
       /\ raised' = FALSE
       /\ out' = <<"No league data available!">>
       /\ queries' = <<>>
       /\ data' = <<>>
       /\ UNCHANGED <<espn_s2, swid, league, kwargs, connected, fs>>
  ELSE LET current_week == league[2].current_week
           r == CollectWeeks(league, answers, 1, current_week)
           e == Export(fs, r.list, "espn_all_matchups.csv", "No matchup data to save!",
                       "Saved " \o NatToStr(Len(r.list)) \o " total matchups from weeks 1-"
                         \o NatToStr(current_week) \o " to espn_all_matchups.csv")
       IN /\ op' = <<"save_all_matchups_to_csv">>
          /\ ret' = PyNone
          /\ raised' = (r.raises \/ e.raises)
          /\ out' = IF r.raises THEN <<>> ELSE e.out
          /\ fs' = IF r.raises THEN fs ELSE e.fs
          /\ queries' = r.asked
          /\ data' = IF r.raises THEN <<>> ELSE r.list
          /\ UNCHANGED <<espn_s2, swid, league, kwargs, connected>>

\* save_league_info_to_json: the file is opened and written whatever
\* get_league_settings returned.
DoSaveLeagueInfo ==
  LET league_info == get_league_settings(league)
  IN /\ op' = <<"save_league_info_to_json">>
     /\ ret' = PyNone
     /\ raised' = FALSE
     /\ out' = <<"Saved league info to espn_league_info.json">>
     /\ fs' = [fs EXCEPT !["espn_league_info.json"] = JsonFile(league_info)]
     /\ queries' = <<>>
     /\ data' = <<league_info>>
     /\ UNCHANGED <<espn_s2, swid, league, kwargs, connected>>

\* The week arguments a caller passes: none, or a week number.
WeekArgs == {PyNone} \cup {PyInt(w) : w \in 1..MaxWeek}

\* The sequences of answers box_scores may give to the weeks of one call.
\* No week is asked for after box_scores has raised: the answers after a
\* raise are left at the raise.
AnswerSeqs ==
  IF Truthy(league)
  THEN {a \in [1..league[2].current_week -> Answers] :
          \A i, j \in DOMAIN a : (i < j /\ a[i].raises) => a[j].raises}
  ELSE {<<>>}

\* ------------------------------------- collaborator B: Sleeper API
\* The largest number of entries of the bulk player directory.
MaxDir == 2

\* The attribute objects of the directory: a full entry of an active NFL
\* quarterback, and entries that differ from it in one respect.
FullEntry ==
  << <<"active", PyBool(TRUE)>>, <<"sport", PyStr("nfl")>>,
     <<"first_name", PyStr("Pat")>>, <<"last_name", PyStr("Mahomes")>>,
     <<"position", PyStr("QB")>>, <<"number", PyInt(15)>>, <<"team", PyStr("KC")>>,
     <<"age", PyInt(28)>>, <<"height", PyStr("74")>>, <<"weight", PyStr("225")>>,
     <<"college", PyStr("Texas Tech")>>, <<"years_exp", PyInt(7)>>,
     <<"status", PyStr("Active")>>, <<"injury_status", PyStr("")>> >>

\* An active NFL linebacker known by a last name only.
SparseEntry ==
  << <<"last_name", PyStr("Smith")>>, <<"position", PyStr("LB")>>,
     <<"sport", PyStr("nfl")>>, <<"active", PyBool(TRUE)>> >>

InactiveEntry ==
  << <<"active", PyBool(FALSE)>>, <<"sport", PyStr("nfl")>>,
     <<"first_name", PyStr("Tom")>>, <<"last_name", PyStr("Brady")>>,
     <<"position", PyStr("QB")>>, <<"team", PyStr("NE")>> >>

OtherSportEntry ==
  << <<"active", PyBool(TRUE)>>, <<"sport", PyStr("nba")>>,
     <<"first_name", PyStr("Kay")>>, <<"position", PyStr("QB")>> >>

NoFlagEntry ==
  << <<"sport", PyStr("nfl")>>, <<"first_name", PyStr("Ned")>>,
     <<"position", PyStr("RB")>> >>

Entries == <<FullEntry, SparseEntry, InactiveEntry, OtherSportEntry, NoFlagEntry>>

PlayerId(i) == "p" \o NatToStr(i)

\* A choice of 0..MaxDir different entries, in the order of Entries or
\* against it.
Monotone(idx) ==
  \/ \A i, j \in DOMAIN idx : i < j => idx[i] < idx[j]
  \/ \A i, j \in DOMAIN idx : i < j => idx[i] > idx[j]

\* The directories GET /players/nfl can return: a mapping from player
\* id to attributes, in the order of the JSON text.
Directories ==
  UNION {{[i \in 1..n |-> <<PlayerId(i), Entries[idx[i]]>>] :
            idx \in {x \in [1..n -> 1..Len(Entries)] : Monotone(x)}} : n \in 0..MaxDir}

\* fetch_all_nfl_players: the directory, or {} when the request fails.
fetch_all_nfl_players(answer) == IF answer.raises THEN <<>> ELSE answer.json

DirectoryAnswers ==
  {[raises |-> TRUE, json |-> <<>>]} \cup {[raises |-> FALSE, json |-> d] : d \in Directories}

\* Stat blocks of the season-stats payload.
FullBlock ==
  << <<"gp", PyInt(16)>>, <<"pass_att", PyInt(500)>>, <<"pass_cmp", PyInt(330)>>,
     <<"pass_yd", PyInt(4200)>>, <<"pass_td", PyInt(30)>>, <<"pass_int", PyInt(9)>>,
     <<"rush_att", PyInt(40)>>, <<"rush_yd", PyInt(250)>>, <<"rush_td", PyInt(3)>>,
     <<"rec_tgt", PyInt(1)>>, <<"rec", PyInt(1)>>, <<"rec_yd", PyInt(6)>>,
     <<"rec_td", PyInt(1)>>, <<"fum", PyInt(2)>>, <<"fum_lost", PyInt(1)>>,
     <<"pts_ppr", PyInt(310)>>, <<"pts_half_ppr", PyInt(309)>>, <<"pts_std", PyInt(308)>> >>

PartialBlock == << <<"gp", PyInt(3)>>, <<"rush_yd", PyInt(12)>> >>

\* The payloads GET /stats/nfl/regular/<season> can return: a mapping
\* from player id to stat block that covers any of the first two ids.
StatsPayloads ==
  {<<>>} \cup {<<<<PlayerId(1), b>>>> : b \in {FullBlock, PartialBlock}}
  \cup {<<<<PlayerId(2), b>>>> : b \in {FullBlock, PartialBlock}}
  \cup {<<<<PlayerId(2), FullBlock>>, <<PlayerId(1), PartialBlock>>>>}

\* fetch_season_stats: the payload, or {} when the request fails.
fetch_season_stats(answer) == IF answer.raises THEN <<>> ELSE answer.json

StatsAnswers ==
  {[raises |-> TRUE, json |-> <<>>]} \cup {[raises |-> FALSE, json |-> m] : m \in StatsPayloads}

\* --------------------------------------------- NFLFantasyStatsScraper
\* f"{first} {last}".strip(), for names that hold no blanks themselves.
FullName(first, last) ==
  IF first = "" THEN last ELSE IF last = "" THEN first ELSE first \o " " \o last

\* A filter that looks at the active flag alone.
IsActiveNfl_AnySport(player_info) == Truthy(DictGet(player_info, "active", PyBool(FALSE)))

\* fetch_all_players' filter.
IsActiveNfl(player_info) ==
  /\ Truthy(DictGet(player_info, "active", PyBool(FALSE)))
  /\ DictGet(player_info, "sport", PyNone) = PyStr("nfl")

\* fetch_all_players' player_data
PlayerData(player_id, player_info) ==
  << <<"player_id", PyStr(player_id)>>,
     <<"name", PyStr(FullName(PyToStr(DictGet(player_info, "first_name", PyStr(""))),
                              PyToStr(DictGet(player_info, "last_name", PyStr(""))))) >>,
     <<"position", DictGet(player_info, "position", PyStr(""))>>,
     <<"jersey", DictGet(player_info, "number", PyStr(""))>>,
     <<"team", DictGet(player_info, "team", PyStr("FA"))>>,
     <<"age", DictGet(player_info, "age", PyStr(""))>>,
     <<"height", DictGet(player_info, "height", PyStr(""))>>,
     <<"weight", DictGet(player_info, "weight", PyStr(""))>>,
     <<"college", DictGet(player_info, "college", PyStr(""))>>,
     <<"years_exp", DictGet(player_info, "years_exp", PyInt(0))>>,
     <<"status", DictGet(player_info, "status", PyStr(""))>>,
     <<"injury_status", DictGet(player_info, "injury_status", PyStr(""))>> >>

\* fetch_all_players' loop over players_dict.items()
RECURSIVE ActivePlayers(_)
ActivePlayers(players_dict) ==
  IF players_dict = <<>> THEN <<>>
  ELSE (IF IsActiveNfl(Head(players_dict)[2])
        THEN <<PlayerData(Head(players_dict)[1], Head(players_dict)[2])>>
        ELSE <<>>) \o ActivePlayers(Tail(players_dict))

\* get_fantasy_stats_for_all_players' relevant_positions
relevant_positions == {"QB", "RB", "WR", "TE", "K", "DEF"}

\* The keys of a fantasy record that come from the stat block, with the
\* key of the block each is read from.
StatKeys ==
  << <<"games_played", "gp">>, <<"passing_attempts", "pass_att">>,
     <<"passing_completions", "pass_cmp">>, <<"passing_yards", "pass_yd">>,
     <<"passing_tds", "pass_td">>, <<"interceptions", "pass_int">>,
     <<"rushing_attempts", "rush_att">>, <<"rushing_yards", "rush_yd">>,
     <<"rushing_tds", "rush_td">>, <<"targets", "rec_tgt">>, <<"receptions", "rec">>,
     <<"receiving_yards", "rec_yd">>, <<"receiving_tds", "rec_td">>,
     <<"fumbles", "fum">>, <<"fumbles_lost", "fum_lost">>,
     <<"fantasy_points_ppr", "pts_ppr">>, <<"fantasy_points_half_ppr", "pts_half_ppr">>,
     <<"fantasy_points_std", "pts_std">> >>

\* player_stats.get(key): no default.
StatOr_NoDefault(player_stats, key) == DictGet(player_stats, key, PyNone)

\* player_stats.get(key, 0)
StatOr(player_stats, key) == DictGet(player_stats, key, PyInt(0))

\* get_fantasy_stats_for_all_players' fantasy_record
FantasyRecord(player, all_stats, season) ==
  LET player_id == DictGet(player, "player_id", PyNone)
      player_stats == DictGet(all_stats, PyToStr(player_id), <<>>)
  IN << <<"player_id", player_id>>, <<"name", DictGet(player, "name", PyNone)>>,
        <<"team", DictGet(player, "team", PyNone)>>,
        <<"position", DictGet(player, "position", PyStr(""))>>,
        <<"season", PyStr(season)>> >>
     \o [k \in 1..Len(StatKeys) |-> <<StatKeys[k][1], StatOr(player_stats, StatKeys[k][2])>>]

\* Whether the join keeps a player.
IsRelevant(player) == PyToStr(DictGet(player, "position", PyStr(""))) \in relevant_positions

\* get_fantasy_stats_for_all_players' loop over self.players
RECURSIVE FantasyData(_, _, _)

\* An inner join: a player the mapping lacks gets no record.
FantasyData_InnerJoin(ps, all_stats, season) ==
  IF ps = <<>> THEN <<>>
  ELSE (IF IsRelevant(Head(ps)) /\ HasKey(all_stats, PyToStr(DictGet(Head(ps), "player_id", PyNone)))
        THEN <<FantasyRecord(Head(ps), all_stats, season)>> ELSE <<>>)
       \o FantasyData(Tail(ps), all_stats, season)

FantasyData(ps, all_stats, season) ==
  IF ps = <<>> THEN <<>>
  ELSE (IF IsRelevant(Head(ps)) THEN <<FantasyRecord(Head(ps), all_stats, season)>> ELSE <<>>)
       \o FantasyData(Tail(ps), all_stats, season)

\* fetch_all_players: an empty directory returns [] before anything is
\* assigned to self.players or self.player_data_cache.
DoFetchAllPlayers(answer) ==
  LET players_dict == fetch_all_nfl_players(answer)
      all_players == ActivePlayers(players_dict)
  IN /\ fetched' = players_dict
     /\ op' = <<"fetch_all_players">>
     /\ raised' = FALSE
     /\ data' = <<>>
     /\ IF players_dict = <<>>
        THEN /\ ret' = PyList(<<>>)
             /\ out' = <<"No player data available">>
             /\ UNCHANGED <<players, player_data_cache>>
        ELSE /\ ret' = PyList(all_players)
             /\ out' = <<"Processing player data...",
                         "Total active NFL players: " \o NatToStr(Len(all_players))>>
             /\ players' = all_players
             /\ player_data_cache' = players_dict
     /\ UNCHANGED <<fantasy_stats, generated, fs>>

\* get_fantasy_stats_for_all_players(season): returns None, and assigns
\* nothing, when no players are loaded.
DoGetFantasyStats(season, answer) ==
  LET all_stats == fetch_season_stats(answer)
      fantasy_data == FantasyData(players, all_stats, season)
  IN /\ op' = <<"get_fantasy_stats_for_all_players", PyStr(season)>>
     /\ raised' = FALSE
     /\ data' = all_stats
     /\ IF players = <<>>
        THEN /\ ret' = PyNone
             /\ out' = <<"No players loaded. Please run fetch_all_players() first.">>
             /\ UNCHANGED fantasy_stats
        ELSE /\ ret' = PyList(fantasy_data)
             /\ out' = (IF all_stats = <<>>
                        THEN <<"Could not fetch season stats. Using player data only.">>
                        ELSE <<>>)
                       \o <<"Processed fantasy stats for " \o NatToStr(Len(fantasy_data))
                              \o " players">>
             /\ fantasy_stats' = fantasy_data
     /\ UNCHANGED <<players, player_data_cache, fetched, generated, fs>>

\* save_players_to_csv and save_fantasy_stats_to_csv
DoSaveStatsCsv(name, records, filename, emptyMsg, savedMsg) ==
  LET e == Export(fs, records, filename, emptyMsg, savedMsg)
  IN /\ op' = <<name>>
     /\ ret' = PyNone
     /\ raised' = e.raises
     /\ out' = e.out
     /\ fs' = e.fs
     /\ data' = records
     /\ UNCHANGED statsVars

DoSavePlayers ==
  DoSaveStatsCsv("save_players_to_csv", players, "nfl_players.csv", "No players to save!",
                 "Saved " \o NatToStr(Len(players)) \o " players to nfl_players.csv")

DoSaveFantasyStats ==
  DoSaveStatsCsv("save_fantasy_stats_to_csv", fantasy_stats, "nfl_fantasy_stats.csv",
                 "No fantasy stats to save!",
                 "Saved fantasy stats for " \o NatToStr(Len(fantasy_stats))
                   \o " players to nfl_fantasy_stats.csv")

\* ------------------------------------------------ generate_sample_data
\* The hard-coded roster, cut to the first player of each of its four
\* lists (qbs, rbs, wrs, tes): name, team, jersey.
qbs == << <<"Patrick Mahomes", "KC", 15>> >>
rbs == << <<"Christian McCaffrey", "SF", 23>> >>
wrs == << <<"Tyreek Hill", "MIA", 10>> >>
tes == << <<"Travis Kelce", "KC", 87>> >>

Names(list) == {list[i][1] : i \in 1..Len(list)}

\* The position the loop gives a name.
PositionOf(name) ==
  IF name \in Names(qbs) THEN "QB"
  ELSE IF name \in Names(rbs) THEN "RB"
  ELSE IF name \in Names(wrs) THEN "WR"
  ELSE "TE"

\* The bounds <<a, b>> of random.randint(a, b) (of random.uniform for
\* the fantasy points) for each stat key, in the order of StatKeys; a
\* literal 0 is <<0, 0>>.
Z == <<0, 0>>
StatRanges(pos) ==
  CASE pos = "QB" ->
         << <<14, 17>>, <<400, 600>>, <<280, 420>>, <<3500, 5000>>, <<25, 45>>, <<5, 15>>,
            <<30, 80>>, <<200, 600>>, <<2, 8>>, Z, Z, Z, Z, <<0, 3>>, <<0, 2>>,
            <<280, 380>>, <<270, 370>>, <<260, 360>> >>
    [] pos = "RB" ->
         << <<12, 17>>, Z, Z, Z, Z, Z, <<180, 320>>, <<900, 1800>>, <<6, 18>>,
            <<30, 90>>, <<25, 75>>, <<200, 800>>, <<1, 6>>, <<0, 3>>, <<0, 2>>,
            <<180, 350>>, <<170, 330>>, <<150, 300>> >>
    [] pos = "WR" ->
         << <<14, 17>>, Z, Z, Z, Z, Z, <<0, 15>>, <<0, 100>>, <<0, 2>>,
            <<100, 180>>, <<70, 130>>, <<900, 1800>>, <<6, 15>>, <<0, 2>>, <<0, 1>>,
            <<200, 370>>, <<180, 340>>, <<160, 310>> >>
    [] OTHER ->
         << <<14, 17>>, Z, Z, Z, Z, Z, Z, Z, Z,
            <<80, 150>>, <<60, 110>>, <<700, 1400>>, <<4, 12>>, <<0, 2>>, <<0, 1>>,
            <<160, 280>>, <<140, 250>>, <<120, 220>> >>

\* One run's random draws, each at an end of its range: `whole` for the
\* counts passing_attempts, targets and fumbles, `part` for the counts
\* passing_completions, receptions and fumbles_lost, `rest` for every
\* other draw.  All players of a run share the draws.
Draws == [whole : {"lo", "hi"}, part : {"lo", "hi"}, rest : {"lo", "hi"}]

Pick(range, end) == IF end = "lo" THEN range[1] ELSE range[2]

DrawFor(key, draws) ==
  IF key \in {"passing_attempts", "targets", "fumbles"} THEN draws.whole
  ELSE IF key \in {"passing_completions", "receptions", "fumbles_lost"} THEN draws.part
  ELSE draws.rest

\* generate_sample_data's player_data
SamplePlayer(player_id, entry, draws) ==
  << <<"player_id", PyStr(NatToStr(player_id))>>, <<"name", PyStr(entry[1])>>,
     <<"position", PyStr(PositionOf(entry[1]))>>,
     <<"jersey", PyStr(NatToStr(entry[3]))>>, <<"team", PyStr(entry[2])>>,
     <<"age", PyInt(Pick(<<23, 32>>, draws.rest))>>,
     <<"height", PyStr(NatToStr(Pick(<<69, 78>>, draws.rest)) \o "\"")>>,
     <<"weight", PyStr(NatToStr(Pick(<<185, 250>>, draws.rest)) \o " lbs")>>,
     <<"college", PyStr("Sample College")>>,
     <<"years_exp", PyInt(Pick(<<1, 10>>, draws.rest))>>,
     <<"status", PyStr("Active")>>, <<"injury_status", PyStr("")>> >>

\* A stat_data numbered after player_id has been incremented.
SampleStat_IdAfterIncrement(player_id, entry, draws) ==
  LET pos == PositionOf(entry[1])
  IN << <<"player_id", PyStr(NatToStr(player_id + 1))>>, <<"name", PyStr(entry[1])>>,
        <<"team", PyStr(entry[2])>>, <<"position", PyStr(pos)>>,
        <<"season", PyStr("2024")>> >>
     \o [k \in 1..Len(StatKeys) |->
           <<StatKeys[k][1],
             PyInt(Pick(StatRanges(pos)[k], DrawFor(StatKeys[k][1], draws)))>>]

\* generate_sample_data's stat_data
SampleStat(player_id, entry, draws) ==
  LET pos == PositionOf(entry[1])
  IN << <<"player_id", PyStr(NatToStr(player_id))>>, <<"name", PyStr(entry[1])>>,
        <<"team", PyStr(entry[2])>>, <<"position", PyStr(pos)>>,
        <<"season", PyStr("2024")>> >>
     \o [k \in 1..Len(StatKeys) |->
           <<StatKeys[k][1],
             PyInt(Pick(StatRanges(pos)[k], DrawFor(StatKeys[k][1], draws)))>>]

\* The first player_id the generator hands out.
FirstSampleId == 1000

\* generate_sample_data: (sample_players, sample_stats)
generate_sample_data(draws) ==
  LET roster == qbs \o rbs \o wrs \o tes
  IN [sample_players |->
        [i \in 1..Len(roster) |-> SamplePlayer(FirstSampleId + i - 1, roster[i], draws)],
      sample_stats |->
        [i \in 1..Len(roster) |-> SampleStat(FirstSampleId + i - 1, roster[i], draws)]]

\* ---------------------------------- a program that uses the scraper
\* __init__: the credentials are the caller's; no league yet.
Credentials == {PyNone, PyStr("tok")}

NoCall ==
  /\ op = <<"__init__">>
  /\ ret = PyNone
  /\ raised = FALSE
  /\ out = <<>>
  /\ queries = <<>>
  /\ data = <<>>

StatsFiles == {"nfl_players.csv", "nfl_fantasy_stats.csv"}

Files == LeagueFiles \cup StatsFiles

\* NFLFantasyStatsScraper.__init__
NoStats ==
  /\ players = <<>>
  /\ fantasy_stats = <<>>
  /\ player_data_cache = <<>>
  /\ fetched = <<>>
  /\ generated = FALSE

\* A program that calls the methods of one scraper: an ESPNLeagueScraper
\* for a public league ("api"), or an NFLFantasyStatsScraper.
Init ==
  /\ espn_s2 = PyNone
  /\ swid = PyNone
  /\ league = PyNone
  /\ kwargs = <<>>
  /\ connected = PyNone
  /\ fs = [f \in Files |-> NoFile]
  /\ NoCall
  /\ week_arg = PyNone
  /\ NoStats
  /\ pc \in {"api", "stats_api"}
  /\ calls = 0
  /\ run = 1
  /\ written = {}

\* One more call by a program that uses the class directly.
Called == pc = "api" /\ calls < MaxCalls /\ calls' = calls + 1

ConnectToLeague ==
  /\ Called
  /\ \E answer \in LeagueAnswers : DoConnect(answer)
  /\ UNCHANGED <<week_arg, pc, statsVars, runVars>>

GetTeamsData == Called /\ DoGetTeams /\ UNCHANGED <<week_arg, pc, statsVars, runVars>>

GetRostersData == Called /\ DoGetRosters /\ UNCHANGED <<week_arg, pc, statsVars, runVars>>

GetLeagueSettings == Called /\ DoGetSettings /\ UNCHANGED <<week_arg, pc, statsVars, runVars>>

GetMatchupsData ==
  /\ Called
  /\ \E week \in WeekArgs, answer \in Answers : DoGetMatchups(week, answer)
  /\ UNCHANGED <<week_arg, pc, statsVars, runVars>>

SaveTeamsToCsv == Called /\ DoSaveTeams /\ UNCHANGED <<week_arg, pc, statsVars, runVars>>

SaveRostersToCsv == Called /\ DoSaveRosters /\ UNCHANGED <<week_arg, pc, statsVars, runVars>>

SaveMatchupsToCsv ==
  /\ Called
  /\ \E week \in WeekArgs, answer \in Answers : DoSaveMatchups(week, answer)
  /\ UNCHANGED <<week_arg, pc, statsVars, runVars>>

SaveAllMatchupsToCsv ==
  /\ Called
  /\ \E answers \in AnswerSeqs : DoSaveAllMatchups(answers)
  /\ UNCHANGED <<week_arg, pc, statsVars, runVars>>

SaveLeagueInfoToJson == Called /\ DoSaveLeagueInfo /\ UNCHANGED <<week_arg, pc, statsVars, runVars>>

\* One more call on the stats scraper.
StatsCalled == pc = "stats_api" /\ calls < MaxCalls /\ calls' = calls + 1

\* The season a caller asks for: the default.
Seasons == {"2024"}

FetchAllPlayers ==
  /\ StatsCalled
  /\ \E answer \in DirectoryAnswers : DoFetchAllPlayers(answer)
  /\ UNCHANGED <<espnVars, pc, runVars>>

GetFantasyStatsForAllPlayers ==
  /\ StatsCalled
  /\ \E season \in Seasons, answer \in StatsAnswers : DoGetFantasyStats(season, answer)
  /\ UNCHANGED <<espnVars, pc, runVars>>

SavePlayersToCsv == StatsCalled /\ DoSavePlayers /\ UNCHANGED <<espnVars, pc, runVars>>

SaveFantasyStatsToCsv == StatsCalled /\ DoSaveFantasyStats /\ UNCHANGED <<espnVars, pc, runVars>>

Next ==
  \/ ConnectToLeague
  \/ GetTeamsData
  \/ GetRostersData
  \/ GetMatchupsData
  \/ GetLeagueSettings
  \/ SaveTeamsToCsv
  \/ SaveRostersToCsv
  \/ SaveMatchupsToCsv
  \/ SaveAllMatchupsToCsv
  \/ SaveLeagueInfoToJson
  \/ FetchAllPlayers
  \/ GetFantasyStatsForAllPlayers
  \/ SavePlayersToCsv
  \/ SaveFantasyStatsToCsv

Spec == Init /\ [][Next]_vars

\* ------------------------------------------ main of the league script
\* main builds one scraper from the command line and calls connect, the
\* savers and the settings export in turn.  It returns when connect
\* fails; an exception out of a saver ends the process ("crashed").
MainInit ==
  /\ \/ /\ pc = "connect"
        /\ espn_s2 \in Credentials
        /\ swid \in Credentials
        /\ week_arg \in WeekArgs
     \/ /\ pc = "fetch"
        /\ espn_s2 = PyNone
        /\ swid = PyNone
        /\ week_arg = PyNone
  /\ league = PyNone
  /\ kwargs = <<>>
  /\ connected = PyNone
  /\ fs = [f \in Files |-> NoFile]
  /\ NoCall
  /\ NoStats
  /\ calls = 0
  /\ run = 1
  /\ written = {}

\* The export calls that write a CSV file.
CsvSavers ==
  {"save_teams_to_csv", "save_rosters_to_csv", "save_matchups_to_csv",
   "save_all_matchups_to_csv", "save_players_to_csv", "save_fantasy_stats_to_csv"}

\* The file the latest export call addresses.
TargetFile ==
  CASE op[1] = "save_teams_to_csv" -> "espn_teams.csv"
    [] op[1] = "save_rosters_to_csv" -> "espn_rosters.csv"
    [] op[1] = "save_all_matchups_to_csv" -> "espn_all_matchups.csv"
    [] op[1] = "save_players_to_csv" -> "nfl_players.csv"
    [] op[1] = "save_fantasy_stats_to_csv" -> "nfl_fantasy_stats.csv"
    [] op[1] = "save_matchups_to_csv" ->
         IF op[2] # PyNone THEN WeekFile(op[2])
         ELSE IF Truthy(league) THEN WeekFile(PyInt(league[2].current_week))
         ELSE WeekFile(PyInt(1))

\* The files the step opens for writing: the export call's file when it
\* has records to write, and the JSON file whenever it is called for.
Opened ==
  IF op'[1] \in CsvSavers /\ data' # <<>> THEN {TargetFile'}
  ELSE IF op'[1] = "save_league_info_to_json" THEN {"espn_league_info.json"}
  ELSE {}

Track == written' = written \cup Opened

\* Where main goes after a saver: on to `next`, unless the saver raised.
After(next) == pc' = IF raised' THEN "crashed" ELSE next

MainConnect ==
  /\ pc = "connect"
  /\ \E answer \in LeagueAnswers :
       DoConnect(answer) /\ pc' = IF answer.raises THEN "exit" ELSE "teams"
  /\ Track
  /\ UNCHANGED <<week_arg, calls, run, statsVars>>

MainSaveTeams ==
  /\ pc = "teams"
  /\ DoSaveTeams
  /\ After("rosters")
  /\ Track
  /\ UNCHANGED <<week_arg, calls, run, statsVars>>

MainSaveRosters ==
  /\ pc = "rosters"
  /\ DoSaveRosters
  /\ After("all_matchups")
  /\ Track
  /\ UNCHANGED <<week_arg, calls, run, statsVars>>

MainSaveAllMatchups ==
  /\ pc = "all_matchups"
  /\ \E answers \in AnswerSeqs : DoSaveAllMatchups(answers)
  /\ After(IF Truthy(week_arg) THEN "week_matchups" ELSE "league_info")
  /\ Track
  /\ UNCHANGED <<week_arg, calls, run, statsVars>>

MainSaveMatchups ==
  /\ pc = "week_matchups"
  /\ \E answer \in Answers : DoSaveMatchups(week_arg, answer)
  /\ After("league_info")
  /\ Track
  /\ UNCHANGED <<week_arg, calls, run, statsVars>>

MainSaveLeagueInfo ==
  /\ pc = "league_info"
  /\ DoSaveLeagueInfo
  /\ After("done")
  /\ Track
  /\ UNCHANGED <<week_arg, calls, run, statsVars>>

\* ------------------------------------------- main of the stats script
\* Step 1: fetch_all_players; its return value is dropped and
\* scraper.players decides whether the sample data are used.
StatsFetch ==
  /\ pc = "fetch"
  /\ \E answer \in DirectoryAnswers : DoFetchAllPlayers(answer)
  /\ pc' = IF players' = <<>> THEN "sample" ELSE "save_players"
  /\ Track
  /\ UNCHANGED <<espnVars, calls, run>>

\* if not scraper.players: the generator's lists replace both lists.
StatsSample ==
  /\ pc = "sample"
  /\ \E draws \in Draws :
       LET sample == generate_sample_data(draws)
       IN /\ players' = sample.sample_players
          /\ fantasy_stats' = sample.sample_stats
  /\ generated' = TRUE
  /\ op' = <<"generate_sample_data">>
  /\ ret' = PyNone
  /\ raised' = FALSE
  /\ out' = <<"Generating comprehensive NFL data for demonstration...">>
  /\ data' = <<>>
  /\ pc' = "save_players"
  /\ Track
  /\ UNCHANGED <<espnVars, calls, run, fs, player_data_cache, fetched>>

\* Step 2
StatsSavePlayers ==
  /\ pc = "save_players"
  /\ DoSavePlayers
  /\ After("fantasy_stats")
  /\ Track
  /\ UNCHANGED <<espnVars, calls, run>>

\* Step 3, with fantasy statistics already there: nothing is fetched.
StatsKeep ==
  /\ pc = "fantasy_stats"
  /\ fantasy_stats # <<>>
  /\ op' = <<"main">>
  /\ ret' = PyNone
  /\ raised' = FALSE
  /\ out' = <<"Step 3: Using existing fantasy statistics...">>
  /\ data' = <<>>
  /\ pc' = "save_stats"
  /\ Track
  /\ UNCHANGED <<espnVars, calls, run, fs, statsVars>>

\* Step 3, otherwise: the join, for this year's season.
StatsJoin ==
  /\ pc = "fantasy_stats"
  /\ fantasy_stats = <<>>
  /\ \E answer \in StatsAnswers : DoGetFantasyStats(NatToStr(year), answer)
  /\ pc' = "save_stats"
  /\ Track
  /\ UNCHANGED <<espnVars, calls, run>>

\* Step 4
StatsSaveFantasyStats ==
  /\ pc = "save_stats"
  /\ DoSaveFantasyStats
  /\ After("done")
  /\ Track
  /\ UNCHANGED <<espnVars, calls, run>>

\* The command is run again: a new process and a new scraper, over the
\* files the earlier runs left.  The commands followed over several
\* runs are those without credentials.
MainRerun ==
  /\ pc \in {"done", "exit", "crashed"}
  /\ run < MaxRuns
  /\ espn_s2 = PyNone
  /\ swid = PyNone
  /\ run' = run + 1
  /\ written' = {}
  /\ pc' = IF op[1] = "save_fantasy_stats_to_csv" THEN "fetch" ELSE "connect"
  /\ league' = PyNone
  /\ kwargs' = <<>>
  /\ connected' = PyNone
  /\ op' = <<"__init__">>
  /\ ret' = PyNone
  /\ raised' = FALSE
  /\ out' = <<>>
  /\ queries' = <<>>
  /\ data' = <<>>
  /\ players' = <<>>
  /\ fantasy_stats' = <<>>
  /\ player_data_cache' = <<>>
  /\ fetched' = <<>>
  /\ generated' = FALSE
  /\ UNCHANGED <<espn_s2, swid, week_arg, fs, calls>>

MainNext ==
  \/ MainConnect
  \/ MainSaveTeams
  \/ MainSaveRosters
  \/ MainSaveAllMatchups
  \/ MainSaveMatchups
  \/ MainSaveLeagueInfo
  \/ StatsFetch
  \/ StatsSample
  \/ StatsSavePlayers
  \/ StatsKeep
  \/ StatsJoin
  \/ StatsSaveFantasyStats
  \/ MainRerun

MainSpec == MainInit /\ [][MainNext]_vars

\* ================================================================ claims
\* The value a record holds under a key.
Field(record, key) == DictGet(record, key, PyNone)

\* What a CSV field shows of a value: nothing for None, else its text.
Shown(v) == IF v = PyNone THEN "" ELSE PyToStr(v)

\* C1: an export call given N >= 1 records with identical key sets
\* leaves a file whose header is the key order of the first record and
\* whose N rows are the N records, in their order, each under that header.
C1_HeaderAndRowsInOrder ==
  (/\ op[1] \in CsvSavers
   /\ ~raised
   /\ data # <<>>
   /\ \A i \in 1..Len(data) : KeySet(data[i]) = KeySet(data[1]))
  => LET file == fs[TargetFile]
     IN /\ file.kind = "csv"
        /\ file.header = Keys(data[1])
        /\ Len(file.rows) = Len(data)
        /\ \A i \in 1..Len(data) :
             /\ Len(file.rows[i]) = Len(file.header)
             /\ \A j \in 1..Len(file.header) :
                  file.rows[i][j] = Shown(Field(data[i], file.header[j]))

\* An export call has written two different records or more, one of
\* them with a None value.
C1_Witness ==
  /\ op[1] \in CsvSavers
  /\ ~raised
  /\ Len(data) >= 2
  /\ data[1] # data[2]
  /\ \E j \in 1..Len(data[1]) : data[1][j][2] = PyNone
  /\ fs[TargetFile].kind = "csv"

\* What an export call prints when it has nothing to write.
NothingToSave ==
  {"No team data to save!", "No roster data to save!", "No matchup data to save!",
   "No players to save!", "No fantasy stats to save!", "No league data available!"}

\* C2: an export call that finds an empty list of records leaves every
\* file as it was, none created and none truncated, and prints that
\* there is nothing to save.
C2_EmptyExportWritesNothing ==
  [][(op'[1] \in CsvSavers /\ ~raised' /\ data' = <<>>)
       => (fs' = fs /\ Len(out') = 1 /\ out'[1] \in NothingToSave)]_vars

\* An export call found nothing to write while the file it addresses
\* was there from an earlier call.
C2_Witness ==
  /\ op[1] \in CsvSavers
  /\ ~raised
  /\ data = <<>>
  /\ fs[TargetFile].kind = "csv"

\* The records get_matchups_data makes of the answer to one query.
WeekRecords(query) == get_matchups_data(league, PyInt(query.week), query.answer).list

\* C3: when save_all_matchups_to_csv returns for a league at current
\* week W, it has asked box_scores for the weeks 1, 2, ..., W, once each
\* and in that order, and the records it had to export are the
\* per-week records of these weeks one after the other; the file holds
\* one row for each of them when there is any.
C3_AllMatchupsIsConcatenation ==
  (op[1] = "save_all_matchups_to_csv" /\ Truthy(league) /\ ~raised)
  => LET W == league[2].current_week
     IN /\ Len(queries) = W
        /\ \A w \in 1..W : queries[w].week = w
        /\ data = Concat([w \in 1..W |-> WeekRecords(queries[w])])
        /\ data # <<>> =>
             /\ Len(fs["espn_all_matchups.csv"].rows) = Len(data)
             /\ \A i \in 1..Len(data) :
                  fs["espn_all_matchups.csv"].rows[i][1] = Shown(Field(data[i], "week"))

\* save_all_matchups_to_csv has exported two weeks that both had box
\* scores, of different shapes.
C3_Witness ==
  /\ op[1] = "save_all_matchups_to_csv"
  /\ ~raised
  /\ Len(queries) = 2
  /\ queries[1].answer.scores # <<>>
  /\ queries[2].answer.scores # <<>>
  /\ queries[1].answer # queries[2].answer
  /\ Len(fs["espn_all_matchups.csv"].rows) = Len(data)

\* The list get_matchups_data returned, and the box scores it was made of.
Returned == ret[2]
BoxScores == queries[1].answer.scores

\* C4: get_matchups_data returns one record for each box score, and a
\* box score with one side missing gives the record the name "BYE" and
\* the id None on that side, home or away, and the real name and id of
\* the team on the other side.
C4_ByeRecord ==
  (op[1] = "get_matchups_data" /\ ~raised /\ Truthy(league))
  => /\ Len(Returned) = Len(BoxScores)
     /\ \A i \in 1..Len(BoxScores) :
          LET m == BoxScores[i]
              r == Returned[i]
          IN /\ ~Truthy(m.home_team) =>
                  /\ Field(r, "home_team") = PyStr("BYE")
                  /\ Field(r, "home_team_id") = PyNone
             /\ ~Truthy(m.away_team) =>
                  /\ Field(r, "away_team") = PyStr("BYE")
                  /\ Field(r, "away_team_id") = PyNone
             /\ Truthy(m.home_team) =>
                  /\ Field(r, "home_team") = m.home_team[2].team_name
                  /\ Field(r, "home_team_id") = m.home_team[2].team_id
             /\ Truthy(m.away_team) =>
                  /\ Field(r, "away_team") = m.away_team[2].team_name
                  /\ Field(r, "away_team_id") = m.away_team[2].team_id

\* get_matchups_data has returned a week with a bye at home and a bye away.
C4_Witness ==
  /\ op[1] = "get_matchups_data"
  /\ ~raised
  /\ Truthy(league)
  /\ \E i, j \in 1..Len(BoxScores) :
       /\ ~Truthy(BoxScores[i].home_team) /\ Truthy(BoxScores[i].away_team)
       /\ ~Truthy(BoxScores[j].away_team) /\ Truthy(BoxScores[j].home_team)
       /\ Field(Returned[i], "home_team") = PyStr("BYE")
       /\ Field(Returned[j], "away_team") = PyStr("BYE")

\* The keys of a fantasy record, in order, and those that hold numbers.
FantasyShape ==
  <<"player_id", "name", "team", "position", "season">>
  \o [k \in 1..Len(StatKeys) |-> StatKeys[k][1]]

NumericFields == {StatKeys[k][1] : k \in 1..Len(StatKeys)}

StatsAbsent(record) == ~HasKey(data, PyToStr(Field(record, "player_id")))

\* The loaded player a fantasy record was made of.
PlayerOf(record) ==
  CHOOSE p \in {players[i] : i \in 1..Len(players)} :
    Field(p, "player_id") = Field(record, "player_id")

Joined == op[1] = "get_fantasy_stats_for_all_players" /\ ~raised /\ ret # PyNone

\* C5 (as amended): the record of an allow-listed player whose id the
\* season-stats mapping lacks has every key of the fantasy-stat record
\* shape, every numeric field is 0, and the identifying fields are
\* those of the player: its id, name, team and position, and the season
\* asked for.
C5_AbsentStatsZeroFilled ==
  Joined =>
    \A i \in 1..Len(ret[2]) :
      LET r == ret[2][i]
      IN StatsAbsent(r) =>
           /\ Keys(r) = FantasyShape
           /\ \A k \in NumericFields : Field(r, k) = PyInt(0)
           /\ Field(r, "name") = Field(PlayerOf(r), "name")
           /\ Field(r, "team") = Field(PlayerOf(r), "team")
           /\ Field(r, "position") = Field(PlayerOf(r), "position")
           /\ PyToStr(Field(r, "position")) \in relevant_positions
           /\ Field(r, "season") = op[2]

\* The join returned a record for a player the fetched, non-empty
\* mapping does not hold.
C5_Witness ==
  /\ Joined
  /\ data # <<>>
  /\ \E i \in 1..Len(ret[2]) :
       /\ StatsAbsent(ret[2][i])
       /\ Field(ret[2][i], "passing_yards") = PyInt(0)
       /\ Field(ret[2][i], "name") = PyStr("Pat Mahomes")

\* C5 as first stated: zero in every numeric field and every key
\* there, and the string fields (name, team, position) empty.
C5_StringFieldsEmpty ==
  Joined =>
    \A i \in 1..Len(ret[2]) :
      LET r == ret[2][i]
      IN StatsAbsent(r) =>
           /\ Keys(r) = FantasyShape
           /\ \A k \in NumericFields : Field(r, k) = PyInt(0)
           /\ \A k \in {"name", "team", "position"} : Field(r, k) = PyStr("")

\* The ids of the records of a list, in order.
RECURSIVE Ids(_)
Ids(records) ==
  IF records = <<>> THEN <<>>
  ELSE <<Field(Head(records), "player_id")>> \o Ids(Tail(records))

\* The records of a list whose position is on the allow-list, in order.
RECURSIVE AllowListed(_)
AllowListed(records) ==
  IF records = <<>> THEN <<>>
  ELSE (IF Field(Head(records), "position") \in
             {PyStr("QB"), PyStr("RB"), PyStr("WR"), PyStr("TE"), PyStr("K"), PyStr("DEF")}
        THEN <<Head(records)>> ELSE <<>>) \o AllowListed(Tail(records))

\* C6: the join is a left join over the loaded players: it returns one
\* record for each loaded player whose position is QB, RB, WR, TE, K or
\* DEF, in the order of the loaded players, and none for another
\* player, whatever the season-stats mapping holds, the empty mapping of
\* a failed fetch included; the list it returns is the list it keeps.
C6_LeftJoin ==
  (op[1] = "get_fantasy_stats_for_all_players" /\ ~raised /\ players # <<>>)
  => /\ ret # PyNone
     /\ Ids(ret[2]) = Ids(AllowListed(players))
     /\ fantasy_stats = ret[2]

\* The join went on after the season-stats fetch failed: it returned a
\* record for the allow-listed player and none for the other player.
C6_Witness ==
  /\ op[1] = "get_fantasy_stats_for_all_players"
  /\ Len(players) = 2
  /\ data = <<>>
  /\ out[1] = "Could not fetch season stats. Using player data only."
  /\ Len(ret[2]) = 1

\* The ids of the entries of a directory that are active and are NFL.
RECURSIVE ActiveNflIds(_)
ActiveNflIds(directory) ==
  IF directory = <<>> THEN <<>>
  ELSE (IF /\ HasKey(Head(directory)[2], "active")
           /\ Field(Head(directory)[2], "active") = PyBool(TRUE)
           /\ Field(Head(directory)[2], "sport") = PyStr("nfl")
        THEN <<PyStr(Head(directory)[1])>> ELSE <<>>) \o ActiveNflIds(Tail(directory))

\* C7: fetch_all_players returns a record for an entry of the directory
\* it got if and only if the entry's active flag is true and its sport
\* is 'nfl'; after a non-empty directory the players list is the list
\* returned, so an inactive, unflagged or other-sport entry of that
\* directory is in neither; and whatever was called, the players list
\* holds the active NFL entries of the directory it was made of.
C7_OnlyActiveNfl ==
  /\ (op[1] = "fetch_all_players" /\ ~raised)
       => /\ Ids(ret[2]) = ActiveNflIds(fetched)
          /\ fetched # <<>> => players = ret[2]
  /\ Ids(players) = ActiveNflIds(player_data_cache)

\* fetch_all_players got a directory of two entries and kept one.
C7_Witness ==
  /\ op[1] = "fetch_all_players"
  /\ Len(fetched) = 2
  /\ Len(ret[2]) = 1
  /\ players = ret[2]

\* C8: the stats pipeline runs generate_sample_data only after a
\* directory fetch that returned the empty mapping, and writes no
\* sample data to a file after a fetch that returned entries.
C8_SampleOnlyWhenFetchEmpty ==
  generated => fetched = <<>>

\* C9: while the scraper is not connected (connect_to_league was never
\* called, or returned False when last called) the getters return an
\* empty list, get_league_settings an empty mapping, and none raises.
C9_GettersGatedByConnected ==
  (/\ ~Truthy(connected)
   /\ op[1] \in {"get_teams_data", "get_rosters_data", "get_matchups_data",
                 "get_league_settings"})
  => /\ ~raised
     /\ ret \in {PyList(<<>>), PyDict(<<>>)}

\* C10: when box_scores raises for a week, get_matchups_data,
\* save_matchups_to_csv and save_all_matchups_to_csv do not raise: the
\* pipeline of main does not stop there.
C10_BoxScoreFailureContained ==
  (op[1] \in {"get_matchups_data", "save_matchups_to_csv", "save_all_matchups_to_csv"})
  => (~raised /\ pc # "crashed")

\* The output files the two pipelines are said to overwrite on each run.
PipelineOutputs ==
  {"espn_teams.csv", "espn_rosters.csv", "espn_all_matchups.csv", "espn_league_info.json",
   "nfl_players.csv", "nfl_fantasy_stats.csv"}

\* C11: once a run of a pipeline has completed, each of its output
\* files that is on disk was written by that run: none holds what an
\* earlier run left.
C11_OutputsFromLatestRun ==
  pc = "done" => \A f \in PipelineOutputs : fs[f] # NoFile => f \in written

\* C12: when connect_to_league fails in main, the failure is caught
\* (the call returns False and raises nothing) and reported, main stops
\* there, before any extraction or export, and the run opens no output
\* file: the files on disk stay as they were.
C12_FailedConnectWritesNothing ==
  [][/\ pc' = "exit" =>
          /\ op' = <<"connect_to_league">>
          /\ ret' = PyBool(FALSE)
          /\ ~raised'
          /\ out'[Len(out')] = "Error connecting to league"
          /\ written' = {}
          /\ fs' = fs
     /\ pc = "exit" => (pc' = "connect" /\ run' = run + 1 /\ fs' = fs)]_vars

\* A run stopped at a failed connect, over the files an earlier run wrote.
C12_Witness ==
  /\ pc = "exit"
  /\ run = 2
  /\ connected = PyBool(FALSE)
  /\ written = {}
  /\ fs["espn_teams.csv"] # NoFile
  /\ fs["espn_league_info.json"] # NoFile

\* What a connector without credentials does with an answer of
\* League(...): the arguments it passed, what it returned, the league it
\* holds and what it printed.
PublicOutcome(answer) ==
  [kwargs |-> << <<"league_id", PyInt(league_id)>>, <<"year", PyInt(year)>> >>,
   ret |-> PyBool(~answer.raises),
   league |-> IF answer.raises THEN PyNone ELSE answer.league,
   out |-> IF answer.raises
           THEN <<ConnectingMsg, "Error connecting to league">>
           ELSE <<ConnectingMsg, "Connected to public league",
                  "League: " \o PyToStr(answer.league[2].settings.name),
                  "Teams: " \o NatToStr(Len(answer.league[2].teams))>>]

BothCredentials == espn_s2 # PyNone /\ swid # PyNone

\* C13: a connector holding one credential of the two does what a
\* connector holding none does: connect_to_league passes neither
\* credential to League(...), and its result, the league it holds and
\* its report are those of the connector without credentials; the
\* credentials are passed, both, only when both are there.
C13_OneCredentialIsPublic ==
  op = <<"connect_to_league">>
  => /\ ~BothCredentials =>
          \E answer \in LeagueAnswers :
            [kwargs |-> kwargs, ret |-> ret, league |-> league, out |-> out]
              = PublicOutcome(answer)
     /\ BothCredentials =>
          /\ kwargs = << <<"league_id", PyInt(league_id)>>, <<"year", PyInt(year)>>,
                         <<"espn_s2", espn_s2>>, <<"swid", swid>> >>
          /\ Truthy(ret) => out[2] = "Connected to private league with authentication"

\* A connector holding espn_s2 alone has connected, in public mode.
C13_Witness ==
  /\ op = <<"connect_to_league">>
  /\ espn_s2 = PyStr("tok")
  /\ swid = PyNone
  /\ ret = PyBool(TRUE)
  /\ ~HasKey(kwargs, "espn_s2")
  /\ out[2] = "Connected to public league"

\* C14: in the record of a bye the missing side holds "BYE" as its team
\* name and as its score (home_score when the home team is missing,
\* away_score when the away team is), and None as its team id.
C14_ByeScoreSentinel ==
  (op[1] = "get_matchups_data" /\ ~raised /\ Truthy(league))
  => \A i \in 1..Len(BoxScores) :
       /\ ~Truthy(BoxScores[i].home_team) =>
            /\ Field(Returned[i], "home_team") = PyStr("BYE")
            /\ Field(Returned[i], "home_score") = PyStr("BYE")
            /\ Field(Returned[i], "home_team_id") = PyNone
       /\ ~Truthy(BoxScores[i].away_team) =>
            /\ Field(Returned[i], "away_team") = PyStr("BYE")
            /\ Field(Returned[i], "away_score") = PyStr("BYE")
            /\ Field(Returned[i], "away_team_id") = PyNone

\* C15: save_league_info_to_json called on a scraper that is not
\* connected, whose get_league_settings gives the empty mapping, writes
\* no file.
C15_EmptySettingsWriteNothing ==
  (op[1] = "save_league_info_to_json" /\ get_league_settings(league) = <<>>)
  => fs["espn_league_info.json"] = NoFile

\* C17: after a call of fetch_all_players the players list is the list
\* the call returned and the directory cache is the directory the call
\* fetched, whatever was called before.
C17_PlayersAreLastFetch ==
  op[1] = "fetch_all_players" => (players = ret[2] /\ player_data_cache = fetched)

\* The number a record holds under a key.
Count(record, key) == Field(record, key)[2]

\* C19: in every stat record generate_sample_data can make, for every
\* outcome of the draws, passing_completions <= passing_attempts,
\* receptions <= targets and fumbles_lost <= fumbles.
C19_SampleCountsPlausible ==
  generated =>
    \A i \in 1..Len(fantasy_stats) :
      /\ Count(fantasy_stats[i], "passing_completions") <= Count(fantasy_stats[i], "passing_attempts")
      /\ Count(fantasy_stats[i], "receptions") <= Count(fantasy_stats[i], "targets")
      /\ Count(fantasy_stats[i], "fumbles_lost") <= Count(fantasy_stats[i], "fumbles")

\* The columns of espn_teams.csv.
TeamColumns ==
  <<"team_id", "team_name", "owner", "wins", "losses", "ties", "points_for",
    "points_against", "standing", "playoff_pct">>

Teams == league[2].teams

\* C16: for a connected league of T >= 1 teams save_teams_to_csv writes
\* the columns team_id, team_name, owner, wins, losses, ties, points_for,
\* points_against, standing, playoff_pct, in that order, and T rows, one
\* for each team in the league's order; and for a league of two teams in
\* its first week, with one played pairing and no bye,
\* save_all_matchups_to_csv writes one row, for week 1.
C16_TeamsAndMatchupsScenario ==
  /\ (op[1] = "save_teams_to_csv" /\ ~raised /\ Truthy(league) /\ Len(Teams) >= 1)
       => LET file == fs["espn_teams.csv"]
          IN /\ file.header = TeamColumns
             /\ Len(file.rows) = Len(Teams)
             /\ \A i \in 1..Len(Teams) :
                  /\ Len(file.rows[i]) = Len(TeamColumns)
                  /\ file.rows[i][1] = Shown(Teams[i].team_id)
                  /\ file.rows[i][2] = Shown(Teams[i].team_name)
                  /\ file.rows[i][9] = Shown(Teams[i].standing)
  /\ (/\ op[1] = "save_all_matchups_to_csv" /\ ~raised /\ Truthy(league)
      /\ Len(Teams) = 2
      /\ league[2].current_week = 1
      /\ queries = <<[week |-> 1,
                      answer |-> [raises |-> FALSE, scores |-> <<Played(Teams[1], Teams[2])>>]]>>)
       => LET file == fs["espn_all_matchups.csv"]
          IN /\ Len(file.rows) = 1
             /\ file.rows[1][1] = "1"
             /\ file.rows[1][2] = Shown(Teams[1].team_name)
             /\ file.rows[1][5] = Shown(Teams[2].team_name)

\* The scenario: the teams of a two-team league were saved, two rows,
\* and then its one played week, one row.
C16_Witness ==
  /\ op[1] = "save_all_matchups_to_csv"
  /\ ~raised
  /\ Truthy(league)
  /\ Len(Teams) = 2
  /\ league[2].current_week = 1
  /\ queries[1].answer.scores = <<Played(Teams[1], Teams[2])>>
  /\ Len(fs["espn_all_matchups.csv"].rows) = 1
  /\ fs["espn_teams.csv"].header = TeamColumns
  /\ Len(fs["espn_teams.csv"].rows) = 2

\* The player ids in the rows of a written file: the first column.
RowIds(file) == {file.rows[i][1] : i \in 1..Len(file.rows)}

\* The ids generate_sample_data hands out, and the ids of the directory
\* the run fetched.
SampleIds == {NatToStr(FirstSampleId + i - 1) : i \in 1..Len(qbs \o rbs \o wrs \o tes)}
LiveIds == {fetched[i][1] : i \in 1..Len(fetched)}

StatsRunDone == pc = "done" /\ op[1] = "save_fantasy_stats_to_csv"

\* C18: the two files a run of the stats pipeline writes have one
\* provenance: after a run that used the generator both hold sample
\* records only, after any other run both hold records of the directory
\* the run fetched only; and every player_id written to
\* nfl_fantasy_stats.csv was written to nfl_players.csv.
C18_OneProvenance ==
  StatsRunDone =>
    LET ids == UNION {RowIds(fs[f]) : f \in written}
    IN /\ "nfl_players.csv" \in written
       /\ fs["nfl_players.csv"] = CsvFile(players)
       /\ "nfl_fantasy_stats.csv" \in written =>
            /\ fs["nfl_fantasy_stats.csv"] = CsvFile(fantasy_stats)
            /\ RowIds(fs["nfl_fantasy_stats.csv"]) \subseteq RowIds(fs["nfl_players.csv"])
       /\ generated => ids \subseteq SampleIds
       /\ ~generated => ids \subseteq LiveIds

\* A second run, on live data, has written both files over those of the
\* first: statistics for a part of the players it wrote.
C18_Witness ==
  /\ StatsRunDone
  /\ run = 2
  /\ ~generated
  /\ written = {"nfl_players.csv", "nfl_fantasy_stats.csv"}
  /\ RowIds(fs["nfl_fantasy_stats.csv"]) # {}
  /\ RowIds(fs["nfl_fantasy_stats.csv"]) # RowIds(fs["nfl_players.csv"])

====
